---- MODULE Spec2Model ----
(***************************************************************************)
(* State-machine model of the nvisy-dal providers (packages/nvisy-dal):    *)
(* the batched write of the Postgres, Milvus, Qdrant, Weaviate and S3      *)
(* providers, the keyset-paginated Postgres read, the marker-paginated S3  *)
(* read, and the connect / disconnect / helper operations with their       *)
(* error normalisation.                                                    *)
(*                                                                         *)
(* Strings that the code compares or orders (object keys, cursor values)   *)
(* are sequences of small naturals; None is the record None below.         *)
(***************************************************************************)
EXTENDS Integers, Sequences, FiniteSets, TLC

VARIABLES
    provider,      \* the provider class the scenario runs
    params,        \* self._params, fixed at construction
    pc,            \* position of the running operation
    result,        \* how the operation ended, as the caller sees it
    calls,         \* native backend calls issued so far, in order
    items,         \* argument of write
    i,             \* loop index of write
    ctx,           \* argument of the running read
    out,           \* pairs yielded by the running read
    prev,          \* pairs yielded by the read that ran before the resumption
    phase,         \* the number of the call in the sequence of calls of the scenario
                   \* (of two reads, 2 is the one resumed from a yielded Context)
    table,         \* rows of the Postgres table
    rs,            \* rows the open Postgres cursor has still to return
    bucket,        \* keys of the S3 bucket
    body,          \* data of the objects put into the bucket, by key
    prefix,        \* local variable prefix of S3Provider.read
    last_key,      \* local variable last_key of S3Provider.read
    page,          \* keys of the listed page not yet fetched
    truncated,     \* IsTruncated of the listed page
    target,        \* backend: whether the table / bucket / collection / index exists
    handle,        \* the Provider handle: "none", "connected" or "closed"
    upserted,      \* local variable upserted of PineconeProvider.upsert
    reported,      \* upserted_count of each response of the Pinecone index, in call order
    acquired,      \* connections self._pool.acquire() has handed out to the call
    checked_out,   \* connections of the pool that are checked out now
    held,          \* of these, the ones held by abandoned (suspended) reads
    tasks          \* concurrent calls on one PostgresProvider, counted by position

vars == <<provider, params, pc, result, calls, items, i, ctx, out, prev, phase,
          table, rs, bucket, body, prefix, last_key, page, truncated, target,
          handle,
          upserted, reported, acquired, checked_out, held, tasks>>

writeVars == <<items, i, upserted, reported>>
readVars == <<ctx, out, prev, phase>>
pgVars == <<table, rs>>
s3Vars == <<bucket, body, prefix, last_key, page, truncated>>
lifeVars == <<target, handle>>
poolVars == <<acquired, checked_out, held>>

(***************************************************************************)
(* Bounds of the model.                                                    *)
(***************************************************************************)
MaxItems == 4
MaxBatch == 3
MaxRows == 3
MaxObjects == 4

(***************************************************************************)
(* Optional strings.                                                       *)
(***************************************************************************)
None == [some |-> FALSE, s |-> <<>>]
Some(s) == [some |-> TRUE, s |-> s]

Min(a, b) == IF a < b THEN a ELSE b

\* key.startswith(p)
StartsWith(key, p) == Len(p) <= Len(key) /\ SubSeq(key, 1, Len(p)) = p

\* the value of ctx and prev while no read runs
NoContext == [cursor |-> None, tiebreaker |-> None]
NoPrev == [pairs |-> <<>>, result |-> [st |-> "none", kind |-> "none",
           source |-> [cls |-> "none", cause |-> "none", code |-> "none"]]]

(***************************************************************************)
(* Errors (errors.py).                                                     *)
(***************************************************************************)
ErrorKind == {"connection", "not_found", "invalid_input", "timeout", "provider"}

NoExc == [cls |-> "none", cause |-> "none", code |-> "none"]

\* The exceptions a native backend call can raise.  An S3 (botocore) call
\* raises a ClientError for an error response of the service, with the
\* service's error code, and another exception (BotoCoreError: endpoint
\* unreachable, parameter validation, ...) otherwise: the distinction
\* S3Provider.connect makes.  The other clients raise their own exception
\* classes, which the providers never tell apart.
S3Calls ==
    {"head_bucket", "head_object", "get_object", "list_objects_v2", "put_object",
     "delete_object"}

\* the error code of the service for a missing bucket or key
MissingCode(op) ==
    CASE op \in {"head_bucket", "head_object"} -> "404"
      [] op = "get_object" -> "NoSuchKey"
      [] OTHER -> "NoSuchBucket"

ClientError(cause, code) == [cls |-> "ClientError", cause |-> cause, code |-> code]

NativeErrors(op) ==
    IF op \in S3Calls
    THEN {ClientError("missing", MissingCode(op)),
          ClientError("malformed", "InvalidArgument"),
          ClientError("other", "AccessDenied")}
         \cup [cls : {"BotoCoreError"}, cause : {"transport", "malformed", "other"},
               code : {"none"}]
    ELSE [cls : {"Exception"}, cause : {"transport", "missing", "malformed", "other"},
          code : {"none"}]

NoResult == [st |-> "none", kind |-> "none", source |-> NoExc]
Ok == [st |-> "ok", kind |-> "none", source |-> NoExc]
\* DalError(msg, kind=..., source=e)
DalError(kind, source) == [st |-> "dal", kind |-> kind, source |-> source]
\* an exception no except clause of the operation matches reaches the caller
Raised(e) == [st |-> "native", kind |-> "none", source |-> e]

\* the default of DalError.__init__: kind = ErrorKind.PROVIDER
DefaultKind == "provider"

\* except Exception as e: raise DalError(msg, source=e) from e
ExceptException(e) == DalError(DefaultKind, e)

\* except ClientError as e: raise DalError(msg, source=e) from e
ExceptClientError(e) ==
    IF e.cls = "ClientError" THEN DalError(DefaultKind, e) ELSE Raised(e)

(***************************************************************************)
(* write: Postgres, Milvus, Qdrant, Weaviate (chunked) and S3 (per item).  *)
(***************************************************************************)
ChunkedProviders == {"postgres", "milvus", "qdrant", "weaviate"}
WriteProviders == ChunkedProviders \cup {"s3"}

NativeWrite(p) ==
    CASE p = "postgres" -> "executemany"
      [] p = "milvus" -> "upsert"
      [] p = "qdrant" -> "upsert"
      [] p = "weaviate" -> "insert_many"
      [] OTHER -> "put_object"

\* an entry of the log of native calls: the call, its argument (a chunk of
\* items, a key, ...) and the exception it raised (NoExc when it returned)
Call(op, batch, exc) == [op |-> op, batch |-> batch, exc |-> exc]

\* Python's s[lo : hi] for 0 <= lo
SliceOffByOne(s, lo, hi) == SubSeq(s, lo + 1, Min(hi, Len(s)) - 1)
Slice(s, lo, hi) == SubSeq(s, lo + 1, Min(hi, Len(s)))

\* whether the index idx is produced by range(0, stop, step), step # 0
InRange(idx, stop, step) == IF step > 0 THEN idx < stop ELSE idx > stop

ValueError == [cls |-> "ValueError", cause |-> "malformed", code |-> "none"]

\* asyncpg.create_pool(dsn=..., min_size=1, max_size=10)
max_size == 10

\* the pool connections an operation of provider p checks out: async with
\* self._pool.acquire() in the Postgres provider, none in the others
Conns(p) == IF p = "postgres" THEN 1 ELSE 0

\* "if not items": the sequence is empty
NotItemsNever(s) == FALSE
NotItems(s) == s = <<>>

\* write is entered: the empty check, the pool checkout (Postgres) and the
\* evaluation of range(0, len(items), batch_size)
WriteEnter ==
    /\ pc = "idle"
    /\ provider \in ChunkedProviders
    /\ \/ /\ NotItems(items)
          /\ pc' = "done"
          /\ result' = Ok
          /\ UNCHANGED <<acquired, checked_out>>
       \/ /\ ~NotItems(items)
          /\ provider = "postgres"
          /\ \E e \in NativeErrors("acquire") :
                /\ pc' = "done"
                /\ result' = ExceptException(e)
          /\ UNCHANGED <<acquired, checked_out>>
       \/ /\ ~NotItems(items)
          /\ params.batch_size = 0
          /\ checked_out + Conns(provider) <= max_size
          /\ pc' = "done"
          /\ result' = ExceptException(ValueError)
          /\ acquired' = acquired + Conns(provider)
          /\ UNCHANGED checked_out
       \/ /\ ~NotItems(items)
          /\ params.batch_size # 0
          /\ checked_out + Conns(provider) <= max_size
          /\ pc' = "loop"
          /\ result' = result
          /\ acquired' = acquired + Conns(provider)
          /\ checked_out' = checked_out + Conns(provider)
    /\ i' = 0
    /\ UNCHANGED <<provider, params, calls, items, upserted, reported, held, tasks>>
    /\ UNCHANGED <<readVars, pgVars, s3Vars, lifeVars>>

WriteBatchFixedSize ==
    /\ pc = "loop"
    /\ provider \in ChunkedProviders
    /\ InRange(i, Len(items), params.batch_size)
    /\ LET batch == Slice(items, i, i + 2)
       IN \/ /\ calls' = Append(calls, Call(NativeWrite(provider), batch, NoExc))
             /\ i' = i + 2
             /\ UNCHANGED <<pc, result, checked_out>>
          \/ /\ \E e \in NativeErrors(NativeWrite(provider)) :
                   /\ calls' = Append(calls, Call(NativeWrite(provider), batch, e))
                   /\ result' = ExceptException(e)
             /\ pc' = "done"
             /\ i' = i
             /\ checked_out' = checked_out - Conns(provider)
    /\ UNCHANGED <<provider, params, items, upserted, reported, acquired, held, tasks>>
    /\ UNCHANGED <<readVars, pgVars, s3Vars, lifeVars>>

\* one iteration of the chunk loop: the native bulk call of the chunk
WriteBatch ==
    /\ pc = "loop"
    /\ provider \in ChunkedProviders
    /\ InRange(i, Len(items), params.batch_size)
    /\ LET batch == Slice(items, i, i + params.batch_size)
       IN \/ /\ calls' = Append(calls, Call(NativeWrite(provider), batch, NoExc))
             /\ i' = i + params.batch_size
             /\ UNCHANGED <<pc, result, checked_out>>
          \/ /\ \E e \in NativeErrors(NativeWrite(provider)) :
                   /\ calls' = Append(calls, Call(NativeWrite(provider), batch, e))
                   /\ result' = ExceptException(e)
             /\ pc' = "done"
             /\ i' = i
             /\ checked_out' = checked_out - Conns(provider)
    /\ UNCHANGED <<provider, params, items, upserted, reported, acquired, held, tasks>>
    /\ UNCHANGED <<readVars, pgVars, s3Vars, lifeVars>>

\* the range is exhausted: write returns None
WriteReturn ==
    /\ pc = "loop"
    /\ provider \in ChunkedProviders
    /\ ~InRange(i, Len(items), params.batch_size)
    /\ pc' = "done"
    /\ result' = Ok
    /\ checked_out' = checked_out - Conns(provider)
    /\ UNCHANGED <<provider, params, calls, items, i, upserted, reported, acquired, held, tasks>>
    /\ UNCHANGED <<readVars, pgVars, s3Vars, lifeVars>>

S3WritePutChunked ==
    /\ pc = "idle"
    /\ provider = "s3"
    /\ i < Len(items)
    /\ LET step == IF params.batch_size >= 1 THEN params.batch_size ELSE 1
           batch == Slice(items, i, i + step)
       IN \/ /\ calls' = Append(calls, Call(NativeWrite(provider), batch, NoExc))
             /\ i' = i + step
             /\ UNCHANGED <<pc, result>>
          \/ /\ \E e \in NativeErrors(NativeWrite(provider)) :
                   /\ calls' = Append(calls, Call(NativeWrite(provider), batch, e))
                   /\ result' = ExceptClientError(e)
             /\ pc' = "done"
             /\ i' = i
    /\ UNCHANGED <<provider, params, items, upserted, reported, tasks>>
    /\ UNCHANGED <<readVars, pgVars, s3Vars, lifeVars, poolVars>>

ResolveKeyAlways(key) == params.prefix \o key

\* S3Provider._resolve_key
ResolveKey(key) ==
    IF params.prefix # <<>> /\ ~StartsWith(key, params.prefix)
    THEN params.prefix \o key
    ELSE key

\* botocore rejects an empty Key before any request is sent
ParamValidationError == [cls |-> "BotoCoreError", cause |-> "malformed", code |-> "none"]

\* S3Provider.write: one put_object per item, no chunking; a put that returns
\* has stored the item's data under the resolved key
S3WritePut ==
    /\ pc = "idle"
    /\ provider = "s3"
    /\ i < Len(items)
    /\ LET item == items[i + 1]
           key == ResolveKey(item.path)
       IN \/ /\ key # <<>>
             /\ calls' = Append(calls, Call(NativeWrite(provider), <<item>>, NoExc))
             /\ bucket' = bucket \cup {key}
             /\ body' = (key :> item.data) @@ body
             /\ i' = i + 1
             /\ UNCHANGED <<pc, result>>
          \/ /\ \E e \in (IF key # <<>> THEN NativeErrors(NativeWrite(provider))
                                        ELSE {ParamValidationError}) :
                   /\ calls' = Append(calls, Call(NativeWrite(provider), <<item>>, e))
                   /\ result' = ExceptClientError(e)
             /\ pc' = "done"
             /\ i' = i
             /\ UNCHANGED <<bucket, body>>
    /\ UNCHANGED <<provider, params, items, upserted, reported, tasks>>
    /\ UNCHANGED <<prefix, last_key, page, truncated>>
    /\ UNCHANGED <<readVars, pgVars, lifeVars, poolVars>>

S3WriteReturn ==
    /\ pc = "idle"
    /\ provider = "s3"
    /\ i >= Len(items)
    /\ pc' = "done"
    /\ result' = Ok
    /\ UNCHANGED <<provider, params, calls, items, i, upserted, reported, tasks>>
    /\ UNCHANGED <<readVars, pgVars, s3Vars, lifeVars, poolVars>>

\* batch_size = 100 of PineconeProvider.upsert
PineconeBatchSize == 100

\* the value of upserted while upsert has assigned or returned nothing
NoCount == 0 - 1

\* PineconeProvider.upsert is entered: "if not vectors: return 0", else the
\* records are built and upserted = 0
PineconeUpsertEnter ==
    /\ pc = "idle"
    /\ provider = "pinecone"
    /\ \/ /\ NotItems(items)
          /\ pc' = "done"
          /\ result' = Ok
       \/ /\ ~NotItems(items)
          /\ pc' = "loop"
          /\ result' = result
    /\ upserted' = 0
    /\ reported' = reported
    /\ i' = 0
    /\ UNCHANGED <<provider, params, calls, items, tasks>>
    /\ UNCHANGED <<readVars, pgVars, s3Vars, lifeVars, poolVars>>

\* response.upserted_count or len(batch): a count of 0 is falsy
OrLen(count, batch) == IF count # 0 THEN count ELSE Len(batch)

\* one iteration of the loop of upsert: self._index.upsert(vectors=batch) and
\* upserted += response.upserted_count or len(batch)
PineconeUpsertBatch ==
    /\ pc = "loop"
    /\ provider = "pinecone"
    /\ InRange(i, Len(items), PineconeBatchSize)
    /\ LET batch == Slice(items, i, i + PineconeBatchSize)
       IN \/ /\ \E upserted_count \in {0, Len(batch) - 1, Len(batch)} :
                   /\ upserted' = upserted + OrLen(upserted_count, batch)
                   /\ reported' = Append(reported, upserted_count)
             /\ calls' = Append(calls, Call("upsert", batch, NoExc))
             /\ i' = i + PineconeBatchSize
             /\ UNCHANGED <<pc, result>>
          \/ /\ \E e \in NativeErrors("upsert") :
                   /\ calls' = Append(calls, Call("upsert", batch, e))
                   /\ result' = ExceptException(e)
             /\ pc' = "done"
             /\ UNCHANGED <<i, upserted, reported>>
    /\ UNCHANGED <<provider, params, items, tasks>>
    /\ UNCHANGED <<readVars, pgVars, s3Vars, lifeVars, poolVars>>

\* the range is exhausted: upsert returns upserted
PineconeUpsertReturn ==
    /\ pc = "loop"
    /\ provider = "pinecone"
    /\ ~InRange(i, Len(items), PineconeBatchSize)
    /\ pc' = "done"
    /\ result' = Ok
    /\ UNCHANGED <<provider, params, calls, items, i, upserted, reported, tasks>>
    /\ UNCHANGED <<readVars, pgVars, s3Vars, lifeVars, poolVars>>

ItemSeq(n) == [k \in 1..n |-> k]

\* n Objects of distinct paths
ObjectSeq(n) == [k \in 1..n |-> [path |-> <<k>>, data |-> k]]

\* the counters of the pool and the concurrent calls while none is made
NoTasks ==
    [start |-> 0, fetching |-> 0, yielded |-> 0, writing |-> 0,
     wstart |-> 0, wloop |-> 0, done |-> 0]

NoParams ==
    [batch_size |-> 1, tiebreaker_column |-> "", where |-> <<>>, prefix |-> <<>>,
     columns |-> <<>>]

InitWrite ==
    /\ provider \in WriteProviders \cup {"pinecone"}
    /\ \E b \in (0 - 1)..MaxBatch : params = [NoParams EXCEPT !.batch_size = b]
    /\ items \in {IF provider = "s3" THEN ObjectSeq(n) ELSE ItemSeq(n) : n \in 0..MaxItems}
    /\ pc = "idle"
    /\ result = NoResult
    /\ calls = <<>>
    /\ i = 0
    /\ ctx = NoContext /\ out = <<>> /\ prev = NoPrev /\ phase = 1
    /\ table = {} /\ rs = <<>>
    /\ bucket = {} /\ body = <<>> /\ prefix = <<>> /\ last_key = None /\ page = <<>>
    /\ truncated = FALSE
    /\ target = TRUE /\ handle = "connected"
    /\ upserted = NoCount /\ reported = <<>>
    /\ acquired = 0 /\ checked_out = 0 /\ held = 0
    /\ tasks = NoTasks

NextWrite ==
    \/ WriteEnter
    \/ WriteBatch
    \/ WriteReturn
    \/ S3WritePut
    \/ S3WriteReturn
    \/ PineconeUpsertEnter
    \/ PineconeUpsertBatch
    \/ PineconeUpsertReturn

SpecWrite == InitWrite /\ [][NextWrite]_vars

(***************************************************************************)
(* Postgres read: keyset pagination (postgres.py).                         *)
(*                                                                         *)
(* A row maps column names to values; the table has the columns "cur"      *)
(* (Params.cursor_column) and "tb" (a unique column, the one a tiebreaker  *)
(* names).  Column values are integers, NULL is the value Null.            *)
(***************************************************************************)
Null == 0 - 1
CursorValues == {1, 2, 10}

cursor_column == "cur"

\* str(v) of a non-negative integer: its decimal digits
RECURSIVE Str(_)
Str(n) == IF n < 10 THEN <<n>> ELSE Str(n \div 10) \o <<n % 10>>

\* the server's cast of a text parameter to the integer type of the column
RECURSIVE ParseInt(_)
ParseInt(s) ==
    IF Len(s) = 1 THEN s[1]
    ELSE 10 * ParseInt(SubSeq(s, 1, Len(s) - 1)) + s[Len(s)]

\* RelationalContext(cursor=..., tiebreaker=...)
RelationalContext(cursor, tiebreaker) == [cursor |-> cursor, tiebreaker |-> tiebreaker]
EmptyContext == RelationalContext(None, None)

\* record_dict.get(col, ""), then str(val) if val is not None else ""
StrOfColumn(record_dict, col) ==
    IF col \in DOMAIN record_dict /\ record_dict[col] # Null
    THEN Str(record_dict[col])
    ELSE <<>>

\* PostgresProvider._extract_context
ExtractContext(record_dict) ==
    RelationalContext(
        Some(StrOfColumn(record_dict, cursor_column)),
        IF params.tiebreaker_column # ""
        THEN Some(StrOfColumn(record_dict, params.tiebreaker_column))
        ELSE None)

\* a bound query parameter: a Python str (the Context's values) or a native value
TextParam(s) == [ty |-> "text", s |-> s, v |-> 0]
NativeParam(v) == [ty |-> "native", s |-> <<>>, v |-> v]

\* one condition of the WHERE clause; p1 and p2 are the numbers of its $k
\* placeholders
Condition(kind, col, p1, col2, p2) ==
    [kind |-> kind, col |-> col, p1 |-> p1, col2 |-> col2, p2 |-> p2]

\* the lists params and conditions of PostgresProvider.read
EmptyQuery == [params |-> <<>>, conditions |-> <<>>]

\* PostgresProvider._build_where_conditions, where being the items of
\* Params.where that remain to be added
RECURSIVE BuildWhereConditions(_, _)
BuildWhereConditions(where, q) ==
    IF where = <<>> THEN q
    ELSE LET key == Head(where)[1]
             value == Head(where)[2]
         IN IF value = Null
            THEN BuildWhereConditions(Tail(where),
                     [q EXCEPT !.conditions = Append(@, Condition("isnull", key, 0, "", 0))])
            ELSE LET ps == Append(q.params, NativeParam(value))
                 IN BuildWhereConditions(Tail(where),
                        [params |-> ps,
                         conditions |-> Append(q.conditions,
                                               Condition("eq", key, Len(ps), "", 0))])

BuildKeysetConditionCursorOnly(c, q, cursor_col) ==
    IF ~c.cursor.some THEN q
    ELSE LET ps == Append(q.params, TextParam(c.cursor.s))
         IN [params |-> ps,
             conditions |-> Append(q.conditions,
                                   Condition("gt", cursor_col, Len(ps), "", 0))]

BuildKeysetConditionInclusive(c, q, cursor_col) ==
    IF ~c.cursor.some THEN q
    ELSE LET ps == Append(q.params, TextParam(c.cursor.s))
         IN IF params.tiebreaker_column # "" /\ c.tiebreaker.some
            THEN LET ps2 == Append(ps, TextParam(c.tiebreaker.s))
                 IN [params |-> ps2,
                     conditions |-> Append(q.conditions,
                         Condition("tuple_gt", cursor_col, Len(ps2) - 1,
                                   params.tiebreaker_column, Len(ps2)))]
            ELSE [params |-> ps,
                  conditions |-> Append(q.conditions,
                                        Condition("ge", cursor_col, Len(ps), "", 0))]

BuildKeysetConditionSwapped(c, q, cursor_col) ==
    IF ~c.cursor.some THEN q
    ELSE LET ps == Append(q.params, TextParam(c.cursor.s))
         IN IF params.tiebreaker_column # "" /\ c.tiebreaker.some
            THEN LET ps2 == Append(ps, TextParam(c.tiebreaker.s))
                 IN [params |-> ps2,
                     conditions |-> Append(q.conditions,
                         Condition("tuple_gt", cursor_col, Len(ps2),
                                   params.tiebreaker_column, Len(ps2) - 1))]
            ELSE [params |-> ps,
                  conditions |-> Append(q.conditions,
                                        Condition("gt", cursor_col, Len(ps), "", 0))]

\* PostgresProvider._build_keyset_condition
BuildKeysetCondition(c, q, cursor_col) ==
    IF ~c.cursor.some THEN q
    ELSE LET ps == Append(q.params, TextParam(c.cursor.s))
         IN IF params.tiebreaker_column # "" /\ c.tiebreaker.some
            THEN LET ps2 == Append(ps, TextParam(c.tiebreaker.s))
                 IN [params |-> ps2,
                     conditions |-> Append(q.conditions,
                         Condition("tuple_gt", cursor_col, Len(ps2) - 1,
                                   params.tiebreaker_column, Len(ps2)))]
            ELSE [params |-> ps,
                  conditions |-> Append(q.conditions,
                                        Condition("gt", cursor_col, Len(ps), "", 0))]

\* a query without ORDER BY
OrderByUnordered == <<>>

\* ORDER BY of PostgresProvider.read
OrderBy ==
    IF params.tiebreaker_column # ""
    THEN <<cursor_column, params.tiebreaker_column>>
    ELSE <<cursor_column>>

\* the query PostgresProvider.read builds for Context c
BuildQuery(c) ==
    LET q == BuildKeysetCondition(c, BuildWhereConditions(params.where, EmptyQuery),
                                  cursor_column)
    IN [params |-> q.params, conditions |-> q.conditions, order_by |-> OrderBy]

(***************************************************************************)
(* The server's evaluation of the query (conn.cursor(query, *params)).     *)
(***************************************************************************)
\* a text parameter the server cannot cast to the column's type
BadParam(p) == p.ty = "text" /\ p.s = <<>>

ParamValue(p) == IF p.ty = "text" THEN ParseInt(p.s) ELSE p.v

\* SQL: a comparison with NULL is not true
Holds(cond, row, ps) ==
    CASE cond.kind = "isnull" -> row[cond.col] = Null
      [] cond.kind = "eq" ->
            row[cond.col] # Null /\ row[cond.col] = ParamValue(ps[cond.p1])
      [] cond.kind = "gt" ->
            row[cond.col] # Null /\ row[cond.col] > ParamValue(ps[cond.p1])
      [] cond.kind = "ge" ->
            row[cond.col] # Null /\ row[cond.col] >= ParamValue(ps[cond.p1])
      [] OTHER ->
            /\ row[cond.col] # Null
            /\ \/ row[cond.col] > ParamValue(ps[cond.p1])
               \/ /\ row[cond.col] = ParamValue(ps[cond.p1])
                  /\ row[cond.col2] # Null
                  /\ row[cond.col2] > ParamValue(ps[cond.p2])

Matching(tbl, q) ==
    {row \in tbl : \A k \in 1..Len(q.conditions) : Holds(q.conditions[k], row, q.params)}

\* ascending order of one column, NULLs last
ValueLess(a, b) == a # Null /\ (b = Null \/ a < b)

\* r1 may precede r2 under ORDER BY cols: not r2 < r1
RECURSIVE MayPrecede(_, _, _)
MayPrecede(r1, r2, cols) ==
    IF cols = <<>> THEN TRUE
    ELSE \/ ValueLess(r1[Head(cols)], r2[Head(cols)])
         \/ /\ ~ValueLess(r2[Head(cols)], r1[Head(cols)])
            /\ MayPrecede(r1, r2, Tail(cols))

\* the orders in which the server may return the rows: every arrangement that
\* ORDER BY allows (rows equal in the ORDER BY columns come in any order)
Arrangements(rows, cols) ==
    {f \in [1..Cardinality(rows) -> rows] :
        /\ \A a, b \in DOMAIN f : a # b => f[a] # f[b]
        /\ \A a \in DOMAIN f : a < Len(f) => MayPrecede(f[a], f[a + 1], cols)}

QueryResults(tbl, q) == Arrangements(Matching(tbl, q), q.order_by)

DataError == [cls |-> "Exception", cause |-> "malformed", code |-> "none"]

\* read is entered: the pool checkout, the construction of the query and the
\* opening of the cursor
PgReadStart ==
    /\ pc = "idle"
    /\ provider = "postgres"
    /\ \/ /\ \E e \in NativeErrors("acquire") : result' = ExceptException(e)
          /\ pc' = "done"
          /\ rs' = <<>>
          /\ UNCHANGED <<acquired, checked_out>>
       \/ /\ checked_out < max_size
          /\ \E k \in DOMAIN BuildQuery(ctx).params : BadParam(BuildQuery(ctx).params[k])
          /\ result' = ExceptException(DataError)
          /\ pc' = "done"
          /\ rs' = <<>>
          /\ acquired' = acquired + 1
          /\ UNCHANGED checked_out
       \/ /\ checked_out < max_size
          /\ \A k \in DOMAIN BuildQuery(ctx).params : ~BadParam(BuildQuery(ctx).params[k])
          /\ rs' \in QueryResults(table, BuildQuery(ctx))
          /\ pc' = "iter"
          /\ result' = result
          /\ acquired' = acquired + 1
          /\ checked_out' = checked_out + 1
    /\ UNCHANGED <<provider, params, calls, ctx, out, prev, phase, table, held, tasks>>
    /\ UNCHANGED <<writeVars, s3Vars, lifeVars>>

\* dict(record): the record has the columns of the select list, the joined
\* Params.columns, or every column ("*") when Params.columns is None or empty
RecordDict(row) ==
    IF params.columns = <<>> THEN row
    ELSE [c \in {params.columns[k] : k \in 1..Len(params.columns)} |-> row[c]]

\* async for record in conn.cursor(...): the next record is fetched and
\* yielded with its Context, the fetch fails, or the cursor is exhausted
PgReadNext ==
    /\ pc = "iter"
    /\ provider = "postgres"
    /\ \/ /\ rs # <<>>
          /\ out' = Append(out, <<RecordDict(Head(rs)),
                                  ExtractContext(RecordDict(Head(rs)))>>)
          /\ rs' = Tail(rs)
          /\ UNCHANGED <<pc, result, checked_out>>
       \/ /\ \E e \in NativeErrors("cursor") : result' = ExceptException(e)
          /\ pc' = "done"
          /\ checked_out' = checked_out - 1
          /\ UNCHANGED <<out, rs>>
       \/ /\ rs = <<>>
          /\ result' = Ok
          /\ pc' = "done"
          /\ checked_out' = checked_out - 1
          /\ UNCHANGED <<out, rs>>
    /\ UNCHANGED <<provider, params, calls, ctx, prev, phase, table, acquired, held, tasks>>
    /\ UNCHANGED <<writeVars, s3Vars, lifeVars>>

\* the consumer stops consuming the sequence (cancellation, crash).  The
\* generator stays suspended at the yield that produced the last item (line
\* 164, inside "async with self._pool.acquire()"), still holding its
\* connection; when the consumer is cancelled while the generator awaits the
\* next record the exception unwinds the async with and the connection goes
\* back to the pool.
Abandon ==
    /\ phase = 1
    /\ pc \in {"iter", "list", "page"}
    /\ pc' = "abandoned"
    /\ \/ /\ out # <<>>
          /\ held' = held + Conns(provider)
          /\ UNCHANGED checked_out
       \/ /\ checked_out' = checked_out - Conns(provider)
          /\ UNCHANGED held
    /\ UNCHANGED <<provider, params, result, calls, ctx, out, prev, phase, acquired, tasks>>
    /\ UNCHANGED <<writeVars, pgVars, s3Vars, lifeVars>>

\* a suspended generator is closed (aclose() by the consumer, or by the event
\* loop once the generator is garbage-collected): GeneratorExit is raised at
\* the yield, no except clause of read matches it, and the async with
\* releases the connection
Aclose ==
    /\ provider = "postgres"
    /\ held > 0
    /\ held' = held - 1
    /\ checked_out' = checked_out - 1
    /\ UNCHANGED <<provider, params, pc, result, calls, acquired, tasks>>
    /\ UNCHANGED <<readVars, writeVars, pgVars, s3Vars, lifeVars>>

\* the Context the caller has persisted: the last one yielded, or the one the
\* read started from when nothing was yielded
LastContext == IF out = <<>> THEN ctx ELSE out[Len(out)][2]

\* the caller calls read again with the last Context it observed
Resume ==
    /\ phase = 1
    /\ pc \in {"abandoned", "done"}
    /\ phase' = 2
    /\ prev' = [pairs |-> out, result |-> result]
    /\ ctx' = LastContext
    /\ out' = <<>>
    /\ result' = NoResult
    /\ pc' = "idle"
    /\ rs' = <<>>
    /\ prefix' = <<>>
    /\ last_key' = None
    /\ page' = <<>>
    /\ truncated' = FALSE
    /\ UNCHANGED <<provider, params, calls, table, bucket, body, tasks>>
    /\ UNCHANGED <<writeVars, lifeVars, poolVars>>

Rows == [cur : CursorValues, tb : 1..MaxRows]

\* tables whose column "tb" is unique
Tables == {t \in SUBSET Rows : \A r1, r2 \in t : r1.tb = r2.tb => r1 = r2}

InitPg ==
    /\ provider = "postgres"
    /\ \E t \in {"", "tb"}, wh \in {<<>>, <<<<"cur", 1>>>>, <<<<"tb", Null>>>>},
          b \in {1, MaxBatch} :
          params = [NoParams EXCEPT !.tiebreaker_column = t, !.where = wh,
                                    !.batch_size = b]
    /\ table \in Tables
    /\ ctx = EmptyContext
    /\ out = <<>> /\ prev = NoPrev /\ phase = 1
    /\ rs = <<>>
    /\ pc = "idle"
    /\ result = NoResult
    /\ calls = <<>>
    /\ items = <<>> /\ i = 0
    /\ bucket = {} /\ body = <<>> /\ prefix = <<>> /\ last_key = None /\ page = <<>>
    /\ truncated = FALSE
    /\ target = TRUE /\ handle = "connected"
    /\ upserted = NoCount /\ reported = <<>>
    /\ acquired = 0 /\ checked_out = 0 /\ held = 0
    /\ tasks = NoTasks

NextPg ==
    \/ PgReadStart
    \/ PgReadNext
    \/ Abandon
    \/ Aclose
    \/ Resume

SpecPg == InitPg /\ [][NextPg]_vars

(***************************************************************************)
(* S3 read: marker (StartAfter) pagination (s3.py).                        *)
(*                                                                         *)
(* Object keys are non-empty strings over a two-letter alphabet, ordered   *)
(* as S3 lists them (lexicographically).                                   *)
(***************************************************************************)
Keys == {<<1>>, <<1, 1>>, <<1, 2>>, <<2>>, <<2, 1>>, <<2, 2>>}

RECURSIVE StrLess(_, _)
StrLess(a, b) ==
    IF b = <<>> THEN FALSE
    ELSE IF a = <<>> THEN TRUE
    ELSE IF Head(a) # Head(b) THEN Head(a) < Head(b)
    ELSE StrLess(Tail(a), Tail(b))

\* Python truth value of an optional string: neither None nor ""
Truthy(o) == o.some /\ o.s # <<>>

ObjectContextNoPrefix(pfx, token) == [prefix |-> None, token |-> token]

\* ObjectContext(prefix=..., token=...)
ObjectContext(pfx, token) == [prefix |-> pfx, token |-> token]

\* get_response["Body"].read(): the data last put under the key (0 for an
\* object that was in the bucket before)
Data(key) == IF key \in DOMAIN body THEN body[key] ELSE 0

\* Object(path=obj_key, data=content, content_type=content_type)
Object(key) == [path |-> key, data |-> Data(key)]

RECURSIVE SortKeys(_)
SortKeys(S) ==
    IF S = {} THEN <<>>
    ELSE LET m == CHOOSE k \in S : \A o \in S : o = k \/ StrLess(k, o)
         IN <<m>> \o SortKeys(S \ {m})

\* the keys list_objects_v2(Bucket, Prefix, MaxKeys[, StartAfter]) has to report
Listing(bkt, pfx, start_after) ==
    SortKeys({k \in bkt : /\ StartsWith(k, pfx)
                          /\ start_after.some => StrLess(start_after.s, k)})

\* the response of list_objects_v2: Contents and IsTruncated
ListObjectsV2(bkt, pfx, max_keys, start_after) ==
    LET all == Listing(bkt, pfx, start_after)
    IN [Contents |-> SubSeq(all, 1, Min(max_keys, Len(all))),
        IsTruncated |-> Len(all) > max_keys]

StartAfterNever(key) == None

\* the StartAfter argument of the list call: passed only "if last_key"
StartAfter(key) == IF Truthy(key) THEN key ELSE None

\* read is entered: prefix = ctx.prefix or self._params.prefix,
\* last_key = ctx.token
S3ReadStart ==
    /\ pc = "idle"
    /\ provider = "s3"
    /\ prefix' = IF Truthy(ctx.prefix) THEN ctx.prefix.s ELSE params.prefix
    /\ last_key' = ctx.token
    /\ pc' = "list"
    /\ UNCHANGED <<provider, params, result, calls, bucket, body, page, truncated, tasks>>
    /\ UNCHANGED <<readVars, writeVars, pgVars, lifeVars, poolVars>>

\* one list_objects_v2 call of the while loop
S3ReadList ==
    /\ pc = "list"
    /\ provider = "s3"
    /\ \/ /\ LET response == ListObjectsV2(bucket, prefix, params.batch_size,
                                           StartAfter(last_key))
             IN /\ page' = response.Contents
                /\ truncated' = response.IsTruncated
          /\ calls' = Append(calls, Call("list_objects_v2", StartAfter(last_key).s, NoExc))
          /\ pc' = "page"
          /\ result' = result
       \/ /\ \E e \in NativeErrors("list_objects_v2") :
                /\ calls' = Append(calls, Call("list_objects_v2", StartAfter(last_key).s, e))
                /\ result' = ExceptClientError(e)
          /\ pc' = "done"
          /\ UNCHANGED <<page, truncated>>
    /\ UNCHANGED <<provider, params, bucket, body, prefix, last_key, tasks>>
    /\ UNCHANGED <<readVars, writeVars, pgVars, lifeVars, poolVars>>

S3ReadGetNoFetch ==
    /\ pc = "page"
    /\ provider = "s3"
    /\ page # <<>>
    /\ LET obj_key == Head(page)
       IN /\ last_key' = Some(obj_key)
          /\ out' = Append(out, <<Object(obj_key),
                                  ObjectContext(Some(prefix), Some(obj_key))>>)
          /\ page' = Tail(page)
          /\ UNCHANGED <<pc, result, calls>>
    /\ UNCHANGED <<provider, params, bucket, body, prefix, truncated>>
    /\ UNCHANGED <<ctx, prev, phase, tasks>>
    /\ UNCHANGED <<writeVars, pgVars, lifeVars, poolVars>>

S3ReadGetStaleKey ==
    /\ pc = "page"
    /\ provider = "s3"
    /\ page # <<>>
    /\ LET obj_key == Head(page)
       IN /\ last_key' = last_key
          /\ \/ /\ calls' = Append(calls, Call("get_object", obj_key, NoExc))
                /\ out' = Append(out, <<Object(obj_key),
                                        ObjectContext(Some(prefix), Some(obj_key))>>)
                /\ page' = Tail(page)
                /\ UNCHANGED <<pc, result>>
             \/ /\ \E e \in NativeErrors("get_object") :
                      /\ calls' = Append(calls, Call("get_object", obj_key, e))
                      /\ result' = ExceptClientError(e)
                /\ pc' = "done"
                /\ UNCHANGED <<out, page>>
    /\ UNCHANGED <<provider, params, bucket, body, prefix, truncated>>
    /\ UNCHANGED <<ctx, prev, phase, tasks>>
    /\ UNCHANGED <<writeVars, pgVars, lifeVars, poolVars>>

\* one iteration of the loop over the page: last_key = obj_key, get_object,
\* and the object is yielded with the Context that resumes after it
S3ReadGet ==
    /\ pc = "page"
    /\ provider = "s3"
    /\ page # <<>>
    /\ LET obj_key == Head(page)
       IN /\ last_key' = Some(obj_key)
          /\ \/ /\ calls' = Append(calls, Call("get_object", obj_key, NoExc))
                /\ out' = Append(out, <<Object(obj_key),
                                        ObjectContext(Some(prefix), Some(obj_key))>>)
                /\ page' = Tail(page)
                /\ UNCHANGED <<pc, result>>
             \/ /\ \E e \in NativeErrors("get_object") :
                      /\ calls' = Append(calls, Call("get_object", obj_key, e))
                      /\ result' = ExceptClientError(e)
                /\ pc' = "done"
                /\ UNCHANGED <<out, page>>
    /\ UNCHANGED <<provider, params, bucket, body, prefix, truncated>>
    /\ UNCHANGED <<ctx, prev, phase, tasks>>
    /\ UNCHANGED <<writeVars, pgVars, lifeVars, poolVars>>

S3ReadPageEndNoBreak ==
    /\ pc = "page"
    /\ provider = "s3"
    /\ page = <<>>
    /\ pc' = "list"
    /\ result' = result
    /\ UNCHANGED <<provider, params, calls, bucket, body, prefix, last_key, page, truncated, tasks>>
    /\ UNCHANGED <<readVars, writeVars, pgVars, lifeVars, poolVars>>

\* the page is consumed: the loop ends unless the response was truncated
S3ReadPageEnd ==
    /\ pc = "page"
    /\ provider = "s3"
    /\ page = <<>>
    /\ \/ /\ ~truncated
          /\ pc' = "done"
          /\ result' = Ok
       \/ /\ truncated
          /\ pc' = "list"
          /\ result' = result
    /\ UNCHANGED <<provider, params, calls, bucket, body, prefix, last_key, page, truncated, tasks>>
    /\ UNCHANGED <<readVars, writeVars, pgVars, lifeVars, poolVars>>

Buckets == {b \in SUBSET Keys : Cardinality(b) <= MaxObjects}

InitS3 ==
    /\ provider = "s3"
    /\ \E b \in 1..MaxBatch, pfx \in {<<>>, <<1>>} :
          params = [NoParams EXCEPT !.batch_size = b, !.prefix = pfx]
    /\ bucket \in Buckets
    /\ body = <<>>
    /\ ctx \in {ObjectContext(pfx, None) : pfx \in {None, Some(<<>>), Some(<<2>>)}}
    /\ out = <<>> /\ prev = NoPrev /\ phase = 1
    /\ prefix = <<>> /\ last_key = None /\ page = <<>> /\ truncated = FALSE
    /\ pc = "idle"
    /\ result = NoResult
    /\ calls = <<>>
    /\ items = <<>> /\ i = 0
    /\ table = {} /\ rs = <<>>
    /\ target = TRUE /\ handle = "connected"
    /\ upserted = NoCount /\ reported = <<>>
    /\ acquired = 0 /\ checked_out = 0 /\ held = 0
    /\ tasks = NoTasks

NextS3 ==
    \/ S3ReadStart
    \/ S3ReadList
    \/ S3ReadGet
    \/ S3ReadPageEnd
    \/ Abandon
    \/ Resume

SpecS3 == InitS3 /\ [][NextS3]_vars

(***************************************************************************)
(* S3 read run to its end from any starting Context, the consumer taking   *)
(* every item.                                                             *)
(***************************************************************************)
\* the Contexts a caller can start a read from: the empty one, one with an
\* empty token, and Contexts persisted earlier, whose key may be gone
StartContexts ==
    {ObjectContext(pfx, tok) : pfx \in {None, Some(<<2>>)},
                               tok \in {None, Some(<<>>), Some(<<1, 1>>)}}

InitS3Run ==
    /\ provider = "s3"
    /\ \E b \in 1..MaxBatch : params = [NoParams EXCEPT !.batch_size = b]
    /\ bucket \in Buckets
    /\ body = <<>>
    /\ ctx \in StartContexts
    /\ out = <<>> /\ prev = NoPrev /\ phase = 1
    /\ prefix = <<>> /\ last_key = None /\ page = <<>> /\ truncated = FALSE
    /\ pc = "idle"
    /\ result = NoResult
    /\ calls = <<>>
    /\ items = <<>> /\ i = 0
    /\ table = {} /\ rs = <<>>
    /\ target = TRUE /\ handle = "connected"
    /\ upserted = NoCount /\ reported = <<>>
    /\ acquired = 0 /\ checked_out = 0 /\ held = 0
    /\ tasks = NoTasks

NextS3Run ==
    \/ S3ReadStart
    \/ S3ReadList
    \/ S3ReadGet
    \/ S3ReadPageEnd

\* the consumer keeps asking for the next item and every backend call returns
\* or raises: each step of the read is eventually taken
SpecS3Run == InitS3Run /\ [][NextS3Run]_vars /\ WF_vars(NextS3Run)

(***************************************************************************)
(* A read run to its end, then a second read from the same Context.        *)
(***************************************************************************)
\* the caller calls read again with the Context it called the first read with
Reread ==
    /\ phase = 1
    /\ pc = "done"
    /\ phase' = 2
    /\ prev' = [pairs |-> out, result |-> result]
    /\ ctx' = ctx
    /\ out' = <<>>
    /\ result' = NoResult
    /\ pc' = "idle"
    /\ rs' = <<>>
    /\ prefix' = <<>>
    /\ last_key' = None
    /\ page' = <<>>
    /\ truncated' = FALSE
    /\ UNCHANGED <<provider, params, calls, table, bucket, body, tasks>>
    /\ UNCHANGED <<writeVars, lifeVars, poolVars>>

InitReread ==
    \/ InitPg /\ params.where = <<>> /\ params.batch_size = 1
    \/ InitS3Run /\ params.batch_size = 1 /\ ctx.token # Some(<<>>)

NextReread ==
    \/ PgReadStart
    \/ PgReadNext
    \/ S3ReadStart
    \/ S3ReadList
    \/ S3ReadGet
    \/ S3ReadPageEnd
    \/ Reread

SpecReread == InitReread /\ [][NextReread]_vars

(***************************************************************************)
(* Concurrent calls on one PostgresProvider, sharing its pool.             *)
(*                                                                         *)
(* The calls are interchangeable, so the state counts them by position.    *)
(* A reading task runs "async for item, c in provider.read(ctx): await     *)
(* provider.write([item])": start (read called, waiting for acquire),      *)
(* fetching (the read holds a connection and awaits the next record),      *)
(* yielded (the consumer has the item and waits for the acquire of its     *)
(* write, the read still holding its connection), writing (the write holds *)
(* a second connection).  A writing task runs provider.write(items):       *)
(* wstart (waiting for acquire), wloop (holding a connection).             *)
(***************************************************************************)
MaxTasks == 10

\* read: async with self._pool.acquire() as conn, then conn.cursor(...)
ReadAcquire ==
    /\ tasks.start > 0
    /\ checked_out < max_size
    /\ tasks' = [tasks EXCEPT !.start = @ - 1, !.fetching = @ + 1]
    /\ checked_out' = checked_out + 1
    /\ UNCHANGED <<provider, params, pc, result, calls, acquired, held>>
    /\ UNCHANGED <<readVars, writeVars, pgVars, s3Vars, lifeVars>>

\* async for record in conn.cursor(...): the next record is yielded to the
\* consumer, or the cursor is exhausted (or raises) and the async with
\* releases the connection
ReadNext ==
    /\ tasks.fetching > 0
    /\ \/ /\ tasks' = [tasks EXCEPT !.fetching = @ - 1, !.yielded = @ + 1]
          /\ UNCHANGED checked_out
       \/ /\ tasks' = [tasks EXCEPT !.fetching = @ - 1, !.done = @ + 1]
          /\ checked_out' = checked_out - 1
    /\ UNCHANGED <<provider, params, pc, result, calls, acquired, held>>
    /\ UNCHANGED <<readVars, writeVars, pgVars, s3Vars, lifeVars>>

\* the consumer's write of the item it was yielded: async with
\* self._pool.acquire() as conn, while the read is suspended at its yield
ConsumerWriteAcquire ==
    /\ tasks.yielded > 0
    /\ checked_out < max_size
    /\ tasks' = [tasks EXCEPT !.yielded = @ - 1, !.writing = @ + 1]
    /\ checked_out' = checked_out + 1
    /\ UNCHANGED <<provider, params, pc, result, calls, acquired, held>>
    /\ UNCHANGED <<readVars, writeVars, pgVars, s3Vars, lifeVars>>

\* the consumer's write returns (or raises), releasing its connection, and
\* the consumer asks the read for the next record
ConsumerWriteRelease ==
    /\ tasks.writing > 0
    /\ tasks' = [tasks EXCEPT !.writing = @ - 1, !.fetching = @ + 1]
    /\ checked_out' = checked_out - 1
    /\ UNCHANGED <<provider, params, pc, result, calls, acquired, held>>
    /\ UNCHANGED <<readVars, writeVars, pgVars, s3Vars, lifeVars>>

\* write: async with self._pool.acquire() as conn
WriteAcquire ==
    /\ tasks.wstart > 0
    /\ checked_out < max_size
    /\ tasks' = [tasks EXCEPT !.wstart = @ - 1, !.wloop = @ + 1]
    /\ checked_out' = checked_out + 1
    /\ UNCHANGED <<provider, params, pc, result, calls, acquired, held>>
    /\ UNCHANGED <<readVars, writeVars, pgVars, s3Vars, lifeVars>>

\* write: the chunk loop ends (or executemany raises) and the async with
\* releases the connection
WriteRelease ==
    /\ tasks.wloop > 0
    /\ tasks' = [tasks EXCEPT !.wloop = @ - 1, !.done = @ + 1]
    /\ checked_out' = checked_out - 1
    /\ UNCHANGED <<provider, params, pc, result, calls, acquired, held>>
    /\ UNCHANGED <<readVars, writeVars, pgVars, s3Vars, lifeVars>>

InitPool ==
    /\ provider = "postgres"
    /\ params = NoParams
    /\ \E r \in 0..MaxTasks, w \in 0..MaxTasks :
          /\ r + w <= MaxTasks
          /\ tasks = [NoTasks EXCEPT !.start = r, !.wstart = w]
    /\ acquired = 0 /\ checked_out = 0 /\ held = 0
    /\ pc = "ready"
    /\ result = NoResult
    /\ calls = <<>>
    /\ items = <<>> /\ i = 0 /\ upserted = NoCount /\ reported = <<>>
    /\ ctx = NoContext /\ out = <<>> /\ prev = NoPrev /\ phase = 1
    /\ table = {} /\ rs = <<>>
    /\ bucket = {} /\ body = <<>> /\ prefix = <<>> /\ last_key = None /\ page = <<>>
    /\ truncated = FALSE
    /\ target = TRUE /\ handle = "connected"

NextPool ==
    \/ ReadAcquire
    \/ ReadNext
    \/ ConsumerWriteAcquire
    \/ ConsumerWriteRelease
    \/ WriteAcquire
    \/ WriteRelease

SpecPool == InitPool /\ [][NextPool]_vars

(***************************************************************************)
(* Lifecycle: connect, the operations on the connected Provider, and       *)
(* disconnect, for the six providers.                                      *)
(***************************************************************************)
Providers == {"postgres", "s3", "milvus", "qdrant", "weaviate", "pinecone"}
VectorProviders == {"milvus", "qdrant", "weaviate"}

\* the native call with which connect reaches the backend
ConnectCall(p) ==
    CASE p = "postgres" -> "create_pool"
      [] p = "s3" -> "head_bucket"
      [] p = "milvus" -> "has_collection"
      [] p = "qdrant" -> "collection_exists"
      [] p = "weaviate" -> "collections.exists"
      [] OTHER -> "describe_index_stats"

\* Backend: head_bucket and Pinecone's index lookup fail when the target is
\* missing; the collection checks return False instead, and create_pool never
\* looks at the table.
ConnectErrors(p, exists) ==
    {e \in NativeErrors(ConnectCall(p)) :
        e.cause = "missing" => (p \in {"s3", "pinecone"} /\ ~exists)}

ConnectReturns(p, exists) == p \in {"s3", "pinecone"} => exists

\* the except clauses of connect
ConnectExcept(p, e) ==
    IF p = "s3" /\ e.cls = "ClientError" /\ e.code = "404"
    THEN DalError("not_found", e)
    ELSE DalError("connection", e)

\* connect(credentials, params)
Connect ==
    /\ pc = "idle"
    /\ handle = "none"
    /\ \/ /\ \E e \in ConnectErrors(provider, target) :
                /\ calls' = Append(calls, Call(ConnectCall(provider), <<>>, e))
                /\ result' = ConnectExcept(provider, e)
          /\ handle' = "none"
          /\ pc' = "done"
       \/ /\ ConnectReturns(provider, target)
          /\ provider \in VectorProviders
          /\ ~target
          /\ calls' = Append(calls, Call(ConnectCall(provider), <<>>, NoExc))
          /\ result' = DalError("not_found", NoExc)
          /\ handle' = "none"
          /\ pc' = "done"
       \/ /\ ConnectReturns(provider, target)
          /\ provider \in VectorProviders => target
          /\ calls' = Append(calls, Call(ConnectCall(provider), <<>>, NoExc))
          /\ result' = Ok
          /\ handle' = "connected"
          /\ pc' = "ready"
    /\ UNCHANGED <<provider, params, target, tasks>>
    /\ UNCHANGED <<writeVars, readVars, pgVars, s3Vars, poolVars>>

\* the operations of a provider and the first native call each makes
Operations(p) ==
    CASE p = "postgres" -> {"read", "write", "execute", "fetch_one", "fetch_all"}
      [] p = "s3" -> {"read", "write", "get", "put", "delete", "exists"}
      [] p = "pinecone" -> {"upsert"}
      [] OTHER -> {"write"}

NativeCall(p, op) ==
    IF p = "s3"
    THEN CASE op = "read" -> "list_objects_v2"
           [] op = "get" -> "get_object"
           [] op = "delete" -> "delete_object"
           [] op = "exists" -> "head_object"
           [] OTHER -> "put_object"
    ELSE op

\* the except clauses of the operations
OperationExcept(p, op, e) ==
    IF p = "s3"
    THEN CASE op = "get" /\ e.cls = "ClientError" /\ e.code = "NoSuchKey" ->
                DalError("not_found", e)
           [] op = "exists" /\ e.cls = "ClientError" /\ e.code = "404" -> Ok
           [] OTHER -> ExceptClientError(e)
    ELSE ExceptException(e)

MaxOps == 2

\* one operation on the connected Provider, up to its first native call
Operation ==
    /\ pc = "ready"
    /\ handle = "connected"
    /\ Len(calls) <= MaxOps
    /\ \E op \in Operations(provider) :
          \/ /\ calls' = Append(calls, Call(op, <<>>, NoExc))
             /\ result' = Ok
          \/ \E e \in NativeErrors(NativeCall(provider, op)) :
                /\ calls' = Append(calls, Call(op, <<>>, e))
                /\ result' = OperationExcept(provider, op, e)
    /\ UNCHANGED <<provider, params, pc, target, handle, tasks>>
    /\ UNCHANGED <<writeVars, readVars, pgVars, s3Vars, poolVars>>

MaxDisconnects == 2

\* the disconnect calls made so far
Disconnects(cs) == Cardinality({k \in 1..Len(cs) : cs[k].op = "disconnect"})

\* what pool.close() / client.close() may raise.  The providers keep no flag
\* of their own: a repeated disconnect makes the same call again, and the
\* clients return at once from close() on a pool or client already closed.
CloseErrorsWhenClosed(h) == NativeErrors("close")
CloseErrors(h) == IF h = "connected" THEN NativeErrors("close") ELSE {}

\* disconnect(): pool.close() / client.close() with no except clause; a no-op
\* for S3 and Pinecone.  It can be called again on the closed Provider.
Disconnect ==
    /\ \/ pc = "ready" /\ handle = "connected"
       \/ pc = "done" /\ handle = "closed" /\ Disconnects(calls) < MaxDisconnects
    /\ \/ /\ result' = Ok
          /\ handle' = "closed"
          /\ calls' = Append(calls, Call("disconnect", <<>>, NoExc))
       \/ /\ provider \notin {"s3", "pinecone"}
          /\ \E e \in CloseErrors(handle) :
                /\ calls' = Append(calls, Call("disconnect", <<>>, e))
                /\ result' = Raised(e)
          /\ handle' = "closed"
    /\ pc' = "done"
    /\ UNCHANGED <<provider, params, target, tasks>>
    /\ UNCHANGED <<writeVars, readVars, pgVars, s3Vars, poolVars>>

InitLife ==
    /\ provider \in Providers
    /\ target \in BOOLEAN
    /\ params = NoParams
    /\ handle = "none"
    /\ pc = "idle"
    /\ result = NoResult
    /\ calls = <<>>
    /\ items = <<>> /\ i = 0
    /\ ctx = NoContext /\ out = <<>> /\ prev = NoPrev /\ phase = 1
    /\ table = {} /\ rs = <<>>
    /\ bucket = {} /\ body = <<>> /\ prefix = <<>> /\ last_key = None /\ page = <<>>
    /\ truncated = FALSE
    /\ upserted = NoCount /\ reported = <<>>
    /\ acquired = 0 /\ checked_out = 0 /\ held = 0
    /\ tasks = NoTasks

NextLife ==
    \/ Connect
    \/ Operation
    \/ Disconnect

SpecLife == InitLife /\ [][NextLife]_vars

(***************************************************************************)
(* Properties.                                                             *)
(***************************************************************************)
Ceil(n, b) == (n + b - 1) \div b

RECURSIVE Flatten(_)
Flatten(cs) == IF cs = <<>> THEN <<>> ELSE Head(cs).batch \o Flatten(Tail(cs))

Batches(cs) == [k \in 1..Len(cs) |-> cs[k].batch]

\* the k-th chunk of at most b of the items
Chunk(k, b) ==
    [j \in 1..(Min(k * b, Len(items)) - (k - 1) * b) |-> items[(k - 1) * b + j]]

\* C1: a write of N >= 1 items with batch_size B >= 1 on the Postgres, Milvus,
\* Qdrant and Weaviate providers issues exactly ceil(N/B) native bulk calls,
\* each of at most B items, whose chunks concatenated in call order are the
\* input sequence; [e1, e2, e3] with B = 2 gives [e1, e2] then [e3].
C1_ChunkedWrite ==
    (/\ provider \in ChunkedProviders
     /\ pc = "done"
     /\ result = Ok
     /\ Len(items) >= 1
     /\ params.batch_size >= 1)
    => /\ Len(calls) = Ceil(Len(items), params.batch_size)
       /\ \A k \in 1..Len(calls) :
             /\ calls[k].op = NativeWrite(provider)
             /\ calls[k].exc = NoExc
             /\ Len(calls[k].batch) >= 1
             /\ Len(calls[k].batch) <= params.batch_size
       /\ Flatten(calls) = items
       /\ (items = ItemSeq(3) /\ params.batch_size = 2
             => Batches(calls) = <<<<1, 2>>, <<3>>>>)

C1_Witness ==
    /\ provider = "qdrant"
    /\ pc = "done"
    /\ result = Ok
    /\ items = ItemSeq(3)
    /\ params.batch_size = 2
    /\ Len(calls) = 2

\* C5: if the native bulk call for chunk k of a write fails, exactly chunks
\* 1..k-1 have been issued and stay committed, no later chunk is issued, and
\* write raises a single DalError whose source is the native exception.
C5_PartialFailure ==
    \A k \in 1..Len(calls) :
        calls[k].exc # NoExc
        => /\ k = Len(calls)
           /\ pc = "done"
           /\ \A j \in 1..(k - 1) : calls[j].exc = NoExc
           /\ \A j \in 1..k :
                 calls[j].batch =
                     Chunk(j, CASE provider = "s3" -> 1
                                [] provider = "pinecone" -> PineconeBatchSize
                                [] OTHER -> params.batch_size)
           /\ result.st = "dal"
           /\ result.source = calls[k].exc

(***************************************************************************)
(* Postgres read.                                                          *)
(***************************************************************************)
RowsOf(pairs) == [k \in 1..Len(pairs) |-> pairs[k][1]]
Range(seq) == {seq[k] : k \in 1..Len(seq)}

\* the rows Params.where selects
Selected ==
    {row \in table :
        \A k \in 1..Len(params.where) :
            IF params.where[k][2] = Null
            THEN row[params.where[k][1]] = Null
            ELSE row[params.where[k][1]] = params.where[k][2]}

\* (c, t) of r1 is strictly before (c, t) of r2
TupleLess(r1, r2) == r1.cur < r2.cur \/ (r1.cur = r2.cur /\ r1.tb < r2.tb)

ResumedReadDone ==
    /\ provider = "postgres"
    /\ phase = 2
    /\ pc = "done"
    /\ result = Ok

\* C2: with cursor and tiebreaker columns configured and a fixed table, for
\* every interruption point the rows yielded before the interruption followed
\* by the rows yielded by the read resumed from the last yielded Context are
\* exactly the rows of the table (those Params.where selects) in ascending
\* (c, t) order, none omitted and none repeated.
C2_ResumeWithTiebreaker ==
    (ResumedReadDone /\ params.tiebreaker_column # "")
    => LET all == RowsOf(prev.pairs) \o RowsOf(out)
       IN /\ Range(all) = Selected
          /\ Len(all) = Cardinality(Selected)
          /\ \A k \in 1..(Len(all) - 1) : TupleLess(all[k], all[k + 1])

\* a resumption between two rows that share their cursor value
C2_Witness ==
    /\ ResumedReadDone
    /\ params.tiebreaker_column # ""
    /\ Len(prev.pairs) = 1
    /\ Len(out) = 2
    /\ out[1][1].cur = prev.pairs[1][1].cur

\* C6: without a tiebreaker column and with rows sharing a cursor value, the
\* read resumed from the Context of one of those rows leaves no gap: every
\* row not yielded before the interruption is yielded after it, and only
\* rows with the tied cursor value may be yielded again.
C6_NoGapWithoutTiebreaker ==
    (ResumedReadDone /\ params.tiebreaker_column = "")
    => /\ Selected \subseteq (Range(RowsOf(prev.pairs)) \cup Range(RowsOf(out)))
       /\ \A row \in Range(RowsOf(out)) \cap Range(RowsOf(prev.pairs)) :
             row.cur = prev.pairs[Len(prev.pairs)][1].cur

CursorUnique == \A r1, r2 \in table : r1.cur = r2.cur => r1 = r2

\* C7: for a table with unique cursor values and no tiebreaker, a read from the
\* empty Context yields the rows in ascending cursor order, the Context
\* yielded with a row names that row's cursor value, and the read resumed from
\* it yields exactly the later rows in order, never that row or an earlier one.
C7_UniqueCursorResume ==
    (provider = "postgres" /\ params.tiebreaker_column = "" /\ CursorUnique)
    => /\ \A k \in 1..Len(out) :
             /\ out[k][2].cursor.some
             /\ ParseInt(out[k][2].cursor.s) = out[k][1].cur
             /\ ~out[k][2].tiebreaker.some
       /\ \A k \in 1..(Len(out) - 1) : out[k][1].cur < out[k + 1][1].cur
       /\ (pc = "done" /\ result = Ok /\ phase = 1) => Range(RowsOf(out)) = Selected
       /\ (pc = "done" /\ result = Ok /\ phase = 2 /\ prev.pairs # <<>>)
             => Range(RowsOf(out)) =
                    {row \in Selected : row.cur > prev.pairs[Len(prev.pairs)][1].cur}

\* ids 1, 2, 10: interrupted after the first row, the resumed read yields the
\* other two
C7_Witness ==
    /\ ResumedReadDone
    /\ params.tiebreaker_column = ""
    /\ CursorUnique
    /\ Len(prev.pairs) = 1
    /\ Len(out) = 2
    /\ out[2][1].cur = 10

(***************************************************************************)
(* S3 read.                                                                *)
(***************************************************************************)
KeysOf(pairs) == [k \in 1..Len(pairs) |-> pairs[k][1].path]

S3ResumedReadDone ==
    /\ provider = "s3"
    /\ phase = 2
    /\ pc = "done"
    /\ result = Ok
    /\ prev.pairs # <<>>

\* C3: over a fixed bucket, for every batch_size >= 1 and every key K yielded
\* by a read under prefix P, read(ObjectContext(prefix=P, token=K)) yields
\* exactly the objects whose keys start with P and are greater than K, in
\* ascending key order, each once, across all page boundaries.
C3_ResumeAfterKey ==
    S3ResumedReadDone
    => LET K == prev.pairs[Len(prev.pairs)][1].path
           P == prev.pairs[Len(prev.pairs)][2].prefix.s
       IN /\ ctx = ObjectContext(Some(P), Some(K))
          /\ \A k \in 1..Len(prev.pairs) : StartsWith(prev.pairs[k][1].path, P)
          /\ KeysOf(out) = SortKeys({k \in bucket : StartsWith(k, P) /\ StrLess(K, k)})

\* a resumed read that lists two pages and leaves a key outside the prefix out
C3_Witness ==
    /\ S3ResumedReadDone
    /\ params.batch_size = 1
    /\ Len(out) = 2
    /\ \E k \in bucket : ~StartsWith(k, ctx.prefix.s)

\* the whole stream of the first read: the objects under its prefix, in key order
S3Stream ==
    LET P == IF Truthy(ctx.prefix) THEN ctx.prefix.s ELSE params.prefix
    IN SortKeys({k \in bucket : StartsWith(k, P)})

\* C8: when a backend call fails in the middle of a read, the sequence has
\* yielded exactly the items before the failure, yields nothing afterwards
\* and raises one DalError; a new read with the last yielded Context then
\* yields the failed item first and the rest of the stream, with no gap and
\* no repeat.
C8_FailureThenResume ==
    /\ (pc = "done" /\ result.st \notin {"none", "ok"}) => result.st = "dal"
    /\ (provider = "s3" /\ pc = "done" /\ result.st \notin {"none", "ok"} /\ phase = 1)
          => KeysOf(out) = SubSeq(S3Stream, 1, Len(out))
    /\ (S3ResumedReadDone /\ prev.result.st \notin {"none", "ok"})
          => KeysOf(prev.pairs) \o KeysOf(out)
                 = SortKeys({k \in bucket : StartsWith(k, ctx.prefix.s)})
    /\ (ResumedReadDone /\ prev.result.st \notin {"none", "ok"})
          => LET all == RowsOf(prev.pairs) \o RowsOf(out)
             IN /\ Range(all) = Selected
                /\ Len(all) = Cardinality(Selected)

\* C9: no backend-native exception escapes a provider operation: every
\* failure of a backend call reaches the caller as a DalError whose kind is
\* in the closed set and whose source is the original exception.
C9_NoNativeEscapes ==
    /\ result.st # "native"
    /\ result.st = "dal" => result.kind \in ErrorKind
    /\ \A k \in 1..Len(calls) :
          (calls[k].exc # NoExc /\ k = Len(calls) /\ pc = "done")
          => result.source = calls[k].exc

\* the shared mapping of failures to kinds
KindOf(cause) ==
    CASE cause = "transport" -> "connection"
      [] cause = "missing" -> "not_found"
      [] cause = "malformed" -> "invalid_input"
      [] OTHER -> "provider"

\* C10: the kind of every raised DalError follows the shared mapping:
\* connectivity failure -> CONNECTION, missing bucket / table / collection /
\* key -> NOT_FOUND, malformed argument -> INVALID_INPUT, the rest -> PROVIDER.
C10_KindFollowsMapping ==
    (result.st = "dal" /\ result.source # NoExc)
    => result.kind = KindOf(result.source.cause)

(***************************************************************************)
(* Lifecycle.                                                              *)
(***************************************************************************)
\* C4: for every provider, connect with Params naming a table / bucket /
\* collection / index that does not exist fails with a DalError of kind
\* NOT_FOUND and returns no Provider, so that no read or write is ever issued
\* against the missing target.  (A connect whose transport fails as well may
\* report that failure instead.)
C4_ConnectMissingTarget ==
    (/\ provider \in Providers
     /\ ~target
     /\ pc # "idle"
     /\ calls[1].exc.cause \in {"none", "missing"})
    => /\ result.st = "dal"
       /\ result.kind = "not_found"
       /\ handle = "none"
       /\ Len(calls) = 1

\* the kind the lifecycle contract gives a failure of connect
SetupKind(cause) ==
    CASE cause = "transport" -> "connection"
      [] cause = "missing" -> "not_found"
      [] OTHER -> "provider"

\* C11: connect classifies its failures three ways for every provider:
\* CONNECTION when the transport cannot be established, NOT_FOUND when the
\* named target does not exist, PROVIDER for any other setup failure (an S3
\* head_bucket ClientError whose code is not 404, a Pinecone
\* describe_index_stats failure that is not a transport failure).
C11_ConnectClassification ==
    (/\ provider \in Providers
     /\ Len(calls) = 1
     /\ result.st = "dal")
    => result.kind = (IF calls[1].exc = NoExc THEN "not_found"
                      ELSE SetupKind(calls[1].exc.cause))

VectorFamily == VectorProviders \cup {"pinecone"}

\* C20: every vector provider (Milvus, Qdrant, Weaviate, Pinecone) has a read
\* that passes the continuation token through unchanged: the token handed to
\* the backend on resume is VectorContext.token and the token of each yielded
\* Context is the one the backend returned.
C20_VectorTokenPassThrough ==
    (provider \in VectorFamily /\ handle = "connected")
    => "read" \in Operations(provider)

(***************************************************************************)
(* write, continued.                                                       *)
(***************************************************************************)
\* C12: write with an empty item sequence is a no-op for every provider (and
\* Pinecone's upsert returns 0): no native backend call is issued, no pool
\* connection is acquired, nothing is raised and the backend is untouched.
C12_EmptyWriteNoOp ==
    items = <<>>
    => /\ calls = <<>>
       /\ acquired = 0
       /\ checked_out = 0
       /\ result \in {NoResult, Ok}
       /\ pc = "done" => result = Ok
       /\ (pc = "done" /\ provider = "pinecone") => upserted = 0

C12_Witness ==
    /\ provider = "postgres"
    /\ items = <<>>
    /\ pc = "done"
    /\ result = Ok

ListCalls(cs) == Cardinality({k \in 1..Len(cs) : cs[k].op = "list_objects_v2"})

\* C18: S3 read terminates: for every finite bucket, every starting Context
\* and every batch_size >= 1 the read issues finitely many list calls (at
\* most one more than there are objects), yields finitely many items and
\* ends; it ends normally only on a page the backend reported as the last
\* (IsTruncated false).
C18_S3ReadTerminates ==
    /\ [](ListCalls(calls) <= Cardinality(bucket) + 1)
    /\ [](Len(out) <= Cardinality(bucket))
    /\ []((pc = "done" /\ result = Ok) => ~truncated)
    /\ <>(pc = "done")

\* a read from a persisted Context that ends after three pages
C18_Witness ==
    /\ provider = "s3"
    /\ ctx.token.some
    /\ ctx.token.s # <<>>
    /\ pc = "done"
    /\ result = Ok
    /\ ListCalls(calls) = 3
    /\ Len(out) = 3

\* C19: prefix scoping is preserved across S3 resumption: the read lists
\* under P = the starting Context's prefix, or Params.prefix when the Context
\* has none; every yielded Context carries P and every yielded key starts
\* with P; the read resumed from a yielded Context lists under P again.
C19_PrefixScoping ==
    provider = "s3"
    => /\ pc # "idle"
             => prefix = (IF ctx.prefix.some /\ ctx.prefix.s # <<>>
                          THEN ctx.prefix.s ELSE params.prefix)
       /\ \A k \in 1..Len(out) :
             /\ out[k][2].prefix = Some(prefix)
             /\ StartsWith(out[k][1].path, prefix)
       /\ (phase = 2 /\ pc # "idle" /\ prev.pairs # <<>>)
             => \A k \in 1..Len(prev.pairs) :
                   /\ prev.pairs[k][2].prefix = Some(prefix)
                   /\ StartsWith(prev.pairs[k][1].path, prefix)

\* a resumption under a prefix given by the starting Context and different
\* from Params.prefix, with objects under both
C19_Witness ==
    /\ S3ResumedReadDone
    /\ out # <<>>
    /\ ctx.prefix = Some(<<2>>)
    /\ params.prefix = <<1>>
    /\ \E k \in bucket : StartsWith(k, params.prefix)

\* the rows a read from Context c has to yield
Expected(c) ==
    {row \in Selected :
        c.cursor.some =>
            IF params.tiebreaker_column # "" /\ c.tiebreaker.some
            THEN \/ row.cur > ParseInt(c.cursor.s)
                 \/ row.cur = ParseInt(c.cursor.s) /\ row.tb > ParseInt(c.tiebreaker.s)
            ELSE row.cur > ParseInt(c.cursor.s)}

\* C14: abandoning a read before exhaustion, after any number k >= 0 of
\* yielded items, leaves the Provider usable: a later read completes with
\* the results it would have had without the abandoned read, and no pool
\* connection stays checked out by the abandoned read.
C14_AbandonLeavesUsable ==
    (phase = 2 /\ prev.result = NoResult /\ pc = "done" /\ result = Ok)
    => /\ held = 0
       /\ checked_out = 0
       /\ provider = "postgres" => Range(RowsOf(out)) = Expected(ctx)

\* C16: read is deterministic in its Context over a fixed backend snapshot:
\* two reads started from equal Contexts on the same Provider yield the same
\* sequence of (item, Context) pairs, and a read never modifies the Context
\* it was given.
C16_ReadDeterministic ==
    /\ []((phase = 2 /\ pc = "done" /\ result = Ok /\ prev.result = Ok)
            => out = prev.pairs)
    /\ [][phase' = phase => ctx' = ctx]_vars

(***************************************************************************)
(* The pool.                                                               *)
(***************************************************************************)
\* the calls that wait for a connection of the pool
Waiting == tasks.start + tasks.yielded + tasks.wstart

\* the calls that hold a connection and have a step to take without another
Running == tasks.fetching + tasks.writing + tasks.wloop

\* C15: any number of read and write calls may run concurrently on one
\* PostgresProvider: at most 10 connections are ever checked out, and every
\* call waiting for a connection is eventually served, so that all calls
\* complete, when every consumer keeps consuming its sequence, consumers that
\* write each item they read to the same Provider included.  Stated on
\* states: while a call waits, a connection is free or some call holding one
\* can go on and release it.
C15_PoolServesEveryCall ==
    /\ checked_out <= max_size
    /\ Waiting > 0 => (checked_out < max_size \/ Running > 0)

(***************************************************************************)
(* Degenerate batch sizes.                                                 *)
(***************************************************************************)
\* C27: for every value of Params.batch_size, 0 and negative values
\* included, a write of N >= 1 items on the Postgres, Milvus, Qdrant and
\* Weaviate providers either submits all N items to the backend or raises a
\* DalError: it never returns successfully with an item unsubmitted.
C27_AllSubmittedOrError ==
    (/\ provider \in ChunkedProviders
     /\ pc = "done"
     /\ result = Ok
     /\ Len(items) >= 1)
        => Flatten(calls) = items

(***************************************************************************)
(* Position of the rows of a Postgres read.                                *)
(***************************************************************************)
\* the row is strictly after the position of Context c
AfterPosition(row, c) ==
    IF params.tiebreaker_column # "" /\ c.tiebreaker.some
    THEN \/ row.cur > ParseInt(c.cursor.s)
         \/ /\ row.cur = ParseInt(c.cursor.s)
            /\ row[params.tiebreaker_column] > ParseInt(c.tiebreaker.s)
    ELSE row.cur > ParseInt(c.cursor.s)

\* C22: every row yielded by a Postgres read started from a Context with
\* cursor lc (and tiebreaker lt) is strictly after that position, (c, t) >
\* (lc, lt) as a tuple when a tiebreaker column is configured and c > lc
\* otherwise, and the rows of any single read are yielded in ascending
\* (c[, t]) order, so that a resumed read never moves backwards even when
\* cursor values repeat.
C22_StrictlyAfterAscending ==
    /\ ctx.cursor.some =>
          \A k \in 1..Len(out) : AfterPosition(out[k][1], ctx)
    /\ \A k \in 1..(Len(out) - 1) :
          IF params.tiebreaker_column # ""
          THEN TupleLess(out[k][1], out[k + 1][1])
          ELSE out[k][1].cur <= out[k + 1][1].cur

\* a resumed read on a table with a repeated cursor value has yielded two
\* rows, the first of them with the cursor value the read was resumed from
C22_Witness ==
    /\ phase = 2
    /\ ctx.cursor.some
    /\ params.tiebreaker_column # ""
    /\ Len(out) >= 2
    /\ out[1][1].cur = ParseInt(ctx.cursor.s)
    /\ out[2][1].cur > out[1][1].cur

(***************************************************************************)
(* The native calls of an S3 read.                                         *)
(***************************************************************************)
\* the keys of the get_object calls that returned, in call order
RECURSIVE Fetched(_)
Fetched(cs) ==
    IF cs = <<>> THEN <<>>
    ELSE IF Head(cs).op = "get_object" /\ Head(cs).exc = NoExc
         THEN <<Head(cs).batch>> \o Fetched(Tail(cs))
         ELSE Fetched(Tail(cs))

\* the keys the read has to yield: those under its prefix after its token
S3Remaining ==
    LET P == IF Truthy(ctx.prefix) THEN ctx.prefix.s ELSE params.prefix
    IN Listing(bucket, P, StartAfter(ctx.token))

\* C23: S3 read is list-then-get: for each yielded object exactly one
\* get_object is issued for its key, after the list call that returned the key
\* and before the object is yielded and before the get of any later key; over
\* a complete read the number of get calls equals the number of yielded items
\* and the number of list calls equals the number of pages.
C23_ListThenGet ==
    provider = "s3" =>
       /\ Fetched(calls) = KeysOf(out)
       /\ \A k \in 1..Len(calls) :
             calls[k].op = "get_object" =>
                /\ \E j \in 1..(k - 1) :
                      /\ calls[j].op = "list_objects_v2"
                      /\ calls[j].exc = NoExc
                      /\ k - j <= params.batch_size
                      /\ \A m \in (j + 1)..k : calls[m].op = "get_object"
                      /\ calls[j].batch # <<>> => StrLess(calls[j].batch, calls[k].batch)
                /\ \A j \in 1..(k - 1) :
                      calls[j].op = "get_object" => StrLess(calls[j].batch, calls[k].batch)
       /\ (pc = "done" /\ result = Ok) =>
             /\ Len(calls) = Len(out) + ListCalls(calls)
             /\ ListCalls(calls) =
                   IF S3Remaining = <<>> THEN 1
                   ELSE Ceil(Len(S3Remaining), params.batch_size)

\* a complete read of two pages, the second one not full
C23_Witness ==
    /\ provider = "s3"
    /\ pc = "done"
    /\ result = Ok
    /\ params.batch_size = 2
    /\ Len(out) = 3
    /\ ListCalls(calls) = 2

\* the pairs a complete read has to yield, whatever the page size
S3Pairs ==
    LET P == IF Truthy(ctx.prefix) THEN ctx.prefix.s ELSE params.prefix
    IN [k \in 1..Len(S3Remaining) |->
            <<Object(S3Remaining[k]), ObjectContext(Some(P), Some(S3Remaining[k]))>>]

\* C24: Contexts are positional only and independent of the page size: for a
\* fixed bucket snapshot and starting Context, S3 read yields the same
\* sequence of (object, Context) pairs for every batch_size >= 1, and the
\* Context yielded with an object is a function of that object's key and the
\* prefix alone, the same whether the read started fresh or was resumed.
C24_PageSizeIndependent ==
    (provider = "s3" /\ pc # "idle") =>
       /\ Len(out) <= Len(S3Pairs)
       /\ out = SubSeq(S3Pairs, 1, Len(out))
       /\ (pc = "done" /\ result = Ok) => out = S3Pairs

\* a read from a persisted Context whose three objects come in two pages
C24_Witness ==
    /\ provider = "s3"
    /\ Truthy(ctx.token)
    /\ pc = "done"
    /\ result = Ok
    /\ params.batch_size = 2
    /\ Len(out) = 3

(***************************************************************************)
(* A sequence of calls on one PostgresProvider, each run to its end: read, *)
(* write, execute, fetch_one and fetch_all, with the checkout of the pool  *)
(* connection each of them makes.                                          *)
(***************************************************************************)
HelperOperations == {"execute", "fetch_one", "fetch_all"}

\* the native call of a helper operation
HelperCall(op) ==
    CASE op = "execute" -> "execute"
      [] op = "fetch_one" -> "fetchrow"
      [] OTHER -> "fetch"

\* execute / fetch_one / fetch_all is entered: async with self._pool.acquire()
PgHelperEnter ==
    /\ pc = "idle"
    /\ provider = "postgres"
    /\ \/ /\ \E e \in NativeErrors("acquire") : result' = ExceptException(e)
          /\ pc' = "done"
          /\ UNCHANGED <<acquired, checked_out>>
       \/ /\ checked_out < max_size
          /\ pc' = "call"
          /\ result' = result
          /\ acquired' = acquired + 1
          /\ checked_out' = checked_out + 1
    /\ UNCHANGED <<provider, params, calls, held, tasks>>
    /\ UNCHANGED <<readVars, writeVars, pgVars, s3Vars, lifeVars>>

\* the native call of the helper returns or raises; leaving the async with
\* gives the connection back either way
PgHelperCall ==
    /\ pc = "call"
    /\ provider = "postgres"
    /\ \E op \in HelperOperations :
          \/ /\ calls' = Append(calls, Call(HelperCall(op), <<>>, NoExc))
             /\ result' = Ok
          \/ \E e \in NativeErrors(HelperCall(op)) :
                /\ calls' = Append(calls, Call(HelperCall(op), <<>>, e))
                /\ result' = ExceptException(e)
    /\ pc' = "done"
    /\ checked_out' = checked_out - 1
    /\ UNCHANGED <<provider, params, acquired, held, tasks>>
    /\ UNCHANGED <<readVars, writeVars, pgVars, s3Vars, lifeVars>>

\* the call has ended and the caller makes the next one on the same Provider
NextCall ==
    /\ pc = "done"
    /\ phase < MaxOps
    /\ phase' = phase + 1
    /\ pc' = "idle"
    /\ result' = NoResult
    /\ out' = <<>>
    /\ rs' = <<>>
    /\ i' = 0
    /\ acquired' = 0
    /\ UNCHANGED <<provider, params, calls, items, upserted, reported, ctx, prev, table,
                   checked_out, held, tasks>>
    /\ UNCHANGED <<s3Vars, lifeVars>>

InitSession ==
    /\ provider = "postgres"
    /\ \E b \in {1, MaxBatch} : params = [NoParams EXCEPT !.batch_size = b]
    /\ table \in {{}, {[cur |-> 1, tb |-> 1]}}
    /\ items \in {ItemSeq(n) : n \in {0, 1, MaxBatch + 1}}
    /\ ctx = EmptyContext
    /\ out = <<>> /\ prev = NoPrev /\ phase = 1
    /\ rs = <<>>
    /\ pc = "idle"
    /\ result = NoResult
    /\ calls = <<>>
    /\ i = 0
    /\ bucket = {} /\ body = <<>> /\ prefix = <<>> /\ last_key = None /\ page = <<>>
    /\ truncated = FALSE
    /\ target = TRUE /\ handle = "connected"
    /\ upserted = NoCount /\ reported = <<>>
    /\ acquired = 0 /\ checked_out = 0 /\ held = 0
    /\ tasks = NoTasks

NextSession ==
    \/ PgReadStart
    \/ PgReadNext
    \/ WriteEnter
    \/ WriteBatch
    \/ WriteReturn
    \/ PgHelperEnter
    \/ PgHelperCall
    \/ NextCall

SpecSession == InitSession /\ [][NextSession]_vars

(***************************************************************************)
(* Connection accounting.                                                  *)
(***************************************************************************)
\* C28: connection accounting of PostgresProvider: each read, write, execute,
\* fetch_one and fetch_all call checks out exactly one pool connection and
\* returns it when the call ends, whether by normal completion, by exhaustion
\* of the read sequence or by a DalError; whenever no call is in progress, no
\* connection is checked out.  Stated on states: a connection is checked out
\* only while a call runs.
C28_ConnectionAccounting ==
    provider = "postgres" =>
       checked_out = IF pc \in {"iter", "loop", "call"} THEN 1 ELSE 0

NullableRows == [cur : CursorValues \cup {Null}, tb : (1..MaxRows) \cup {Null}]

NullableTables == {t \in SUBSET NullableRows : Cardinality(t) <= 2}

\* Params.where, a dict: its items in insertion order
Wheres ==
    {<<>>,
     <<<<"tb", Null>>, <<"cur", 2>>>>,
     <<<<"cur", 2>>, <<"tb", 1>>>>}

\* Params.columns: None, or a list of column names
SelectLists == {<<>>, <<"tb">>, <<"cur", "tb">>}

Contexts ==
    {EmptyContext,
     RelationalContext(Some(<<1>>), None),
     RelationalContext(Some(<<1>>), Some(<<2>>))}

InitPgAny ==
    /\ provider = "postgres"
    /\ \E t \in {"", "tb"}, wh \in Wheres, cols \in SelectLists :
          params = [NoParams EXCEPT !.tiebreaker_column = t, !.where = wh,
                                    !.columns = cols]
    /\ table \in NullableTables
    /\ ctx \in Contexts
    /\ out = <<>> /\ prev = NoPrev /\ phase = 1
    /\ rs = <<>>
    /\ pc = "idle"
    /\ result = NoResult
    /\ calls = <<>>
    /\ items = <<>> /\ i = 0
    /\ bucket = {} /\ body = <<>> /\ prefix = <<>> /\ last_key = None /\ page = <<>>
    /\ truncated = FALSE
    /\ target = TRUE /\ handle = "connected"
    /\ upserted = NoCount /\ reported = <<>>
    /\ acquired = 0 /\ checked_out = 0 /\ held = 0
    /\ tasks = NoTasks

NextPgAny ==
    \/ PgReadStart
    \/ PgReadNext

SpecPgAny == InitPgAny /\ [][NextPgAny]_vars

(***************************************************************************)
(* The Context yielded with a row.                                         *)
(***************************************************************************)
\* Context c identifies the row: it carries the row's cursor-column value,
\* and the row's tiebreaker-column value exactly when a tiebreaker column is
\* configured
Identifies(c, row) ==
    /\ row.cur # Null
    /\ c.cursor = Some(Str(row.cur))
    /\ IF params.tiebreaker_column # ""
       THEN row.tb # Null /\ c.tiebreaker = Some(Str(row.tb))
       ELSE c.tiebreaker = None

\* C25: every Context yielded by Postgres read identifies the row it is
\* yielded with: its cursor equals that row's cursor-column value, and its
\* tiebreaker is non-null and equal to the row's tiebreaker-column value
\* exactly when a tiebreaker column is configured (null otherwise); this holds
\* also when Params.columns does not select the cursor or tiebreaker column
\* and when the column value is NULL.
C25_ContextIdentifiesRow ==
    \A k \in 1..Len(out) :
        \E row \in table :
            /\ RecordDict(row) = out[k][1]
            /\ Identifies(out[k][2], row)

(***************************************************************************)
(* The placeholders of the query.                                          *)
(***************************************************************************)
\* the numbers of the $k placeholders of the conditions, in the order of the
\* SQL text
RECURSIVE Placeholders(_)
Placeholders(conds) ==
    IF conds = <<>> THEN <<>>
    ELSE (CASE Head(conds).kind = "isnull" -> <<>>
            [] Head(conds).kind = "tuple_gt" -> <<Head(conds).p1, Head(conds).p2>>
            [] OTHER -> <<Head(conds).p1>>)
         \o Placeholders(Tail(conds))

\* C29: in the SQL built by PostgresProvider.read, for every combination of
\* Params.where entries (entries whose value is None included) and every
\* Context (no cursor, cursor only, cursor with tiebreaker), the number of $k
\* placeholders equals the length of the parameter list and placeholder $k is
\* compared against the column whose value is the k-th parameter, so that the
\* where filter stays applied on resume and the cursor and tiebreaker values
\* bind to the cursor and tiebreaker columns.
C29_PlaceholdersBind ==
    LET q == BuildQuery(ctx)
        n == Len(params.where)
    IN /\ Placeholders(q.conditions) = [k \in 1..Len(q.params) |-> k]
       /\ Len(q.conditions) = n + (IF ctx.cursor.some THEN 1 ELSE 0)
       /\ \A k \in 1..n :
             /\ q.conditions[k].col = params.where[k][1]
             /\ IF params.where[k][2] = Null
                THEN q.conditions[k].kind = "isnull"
                ELSE /\ q.conditions[k].kind = "eq"
                     /\ q.params[q.conditions[k].p1] = NativeParam(params.where[k][2])
       /\ ctx.cursor.some =>
             LET cond == q.conditions[n + 1]
             IN /\ cond.col = cursor_column
                /\ q.params[cond.p1] = TextParam(ctx.cursor.s)
                /\ IF params.tiebreaker_column # "" /\ ctx.tiebreaker.some
                   THEN /\ cond.kind = "tuple_gt"
                        /\ cond.col2 = params.tiebreaker_column
                        /\ q.params[cond.p2] = TextParam(ctx.tiebreaker.s)
                   ELSE cond.kind = "gt"
       /\ \A k \in 1..Len(rs) :
             /\ rs[k] \in Selected
             /\ ctx.cursor.some => AfterPosition(rs[k], ctx)

\* the query of a resumption with cursor and tiebreaker, under a where filter
\* whose first entry is an IS NULL test (no parameter) and whose second entry
\* binds $1, has returned a row
C29_Witness ==
    /\ pc = "iter"
    /\ rs # <<>>
    /\ params.tiebreaker_column # ""
    /\ ctx.tiebreaker.some
    /\ Len(params.where) = 2
    /\ params.where[1][2] = Null
    /\ Len(BuildQuery(ctx).params) = 3

(***************************************************************************)
(* Postgres write of dict items: the INSERT statement and its arguments.   *)
(*                                                                         *)
(* An item is a dict, modelled as the sequence of its (key, value) pairs   *)
(* in insertion order; a stored row maps column names to values.           *)
(***************************************************************************)
\* list(item.keys()) and tuple(item.values())
DictKeys(item) == [k \in 1..Len(item) |-> item[k][1]]
DictValues(item) == [k \in 1..Len(item) |-> item[k][2]]

\* columns = list(items[0].keys()): the column list of the INSERT statement
InsertColumns == DictKeys(items[1])

\* the row INSERT INTO t (columns) VALUES ($1, ..., $n) stores for one
\* argument tuple
InsertedRow(columns, args) ==
    [c \in {columns[k] : k \in 1..Len(columns)} |->
        args[CHOOSE k \in 1..Len(columns) : columns[k] = c]]

\* the server expects as many arguments as the statement has placeholders
ArityError == [cls |-> "Exception", cause |-> "malformed", code |-> "none"]

\* one iteration of the chunk loop of PostgresProvider.write with the rows the
\* server stores: executemany binds each tuple of values to the placeholders
\* by position and stores all rows of the chunk or none
PgInsertBatch ==
    /\ pc = "loop"
    /\ provider = "postgres"
    /\ InRange(i, Len(items), params.batch_size)
    /\ LET batch == Slice(items, i, i + params.batch_size)
           args == [k \in 1..Len(batch) |-> DictValues(batch[k])]
           fits == \A k \in 1..Len(args) : Len(args[k]) = Len(InsertColumns)
       IN \/ /\ fits
             /\ calls' = Append(calls, Call("executemany", batch, NoExc))
             /\ table' = table \cup
                            {InsertedRow(InsertColumns, args[k]) : k \in 1..Len(args)}
             /\ i' = i + params.batch_size
             /\ UNCHANGED <<pc, result, checked_out>>
          \/ /\ \E e \in (IF fits THEN NativeErrors("executemany") ELSE {ArityError}) :
                   /\ calls' = Append(calls, Call("executemany", batch, e))
                   /\ result' = ExceptException(e)
             /\ pc' = "done"
             /\ i' = i
             /\ checked_out' = checked_out - 1
             /\ UNCHANGED table
    /\ UNCHANGED <<provider, params, items, upserted, reported, acquired, held, tasks, rs>>
    /\ UNCHANGED <<readVars, s3Vars, lifeVars>>

MaxDicts == 2

\* the dicts over the columns "a" and "b", in either insertion order
Dicts ==
    {<<<<c, v>>>> : c \in {"a", "b"}, v \in 1..2}
    \cup {<<<<c[1], v>>, <<c[2], w>>>> :
             c \in {<<"a", "b">>, <<"b", "a">>}, v \in 1..2, w \in 1..2}

RECURSIVE DictSeqs(_)
DictSeqs(n) ==
    IF n = 0 THEN {<<>>}
    ELSE DictSeqs(n - 1)
         \cup {Append(s, d) : s \in {t \in DictSeqs(n - 1) : Len(t) = n - 1}, d \in Dicts}

InitPgInsert ==
    /\ provider = "postgres"
    /\ \E b \in {1, MaxBatch} : params = [NoParams EXCEPT !.batch_size = b]
    /\ items \in DictSeqs(MaxDicts)
    /\ table = {}
    /\ pc = "idle"
    /\ result = NoResult
    /\ calls = <<>>
    /\ i = 0
    /\ ctx = NoContext /\ out = <<>> /\ prev = NoPrev /\ phase = 1
    /\ rs = <<>>
    /\ bucket = {} /\ body = <<>> /\ prefix = <<>> /\ last_key = None /\ page = <<>>
    /\ truncated = FALSE
    /\ target = TRUE /\ handle = "connected"
    /\ upserted = NoCount /\ reported = <<>>
    /\ acquired = 0 /\ checked_out = 0 /\ held = 0
    /\ tasks = NoTasks

NextPgInsert ==
    \/ WriteEnter
    \/ PgInsertBatch
    \/ WriteReturn

SpecPgInsert == InitPgInsert /\ [][NextPgInsert]_vars

\* C26: PostgresProvider.write stores every item under its own column names:
\* for each item of the input and each column name k of that item, the
\* inserted row holds item[k] in column k, including when items list their
\* keys in a different order than the first item or have a different key set
\* than the first item (in which case the write fails with a DalError instead
\* of storing a value under the wrong column).
C26_StoredUnderOwnColumns ==
    (pc = "done" /\ result = Ok) =>
       \A k \in 1..Len(items) :
          \E row \in table :
             \A j \in 1..Len(items[k]) :
                /\ items[k][j][1] \in DOMAIN row
                /\ row[items[k][j][1]] = items[k][j][2]

(***************************************************************************)
(* S3 round trip: write(items), then a read from the empty Context on the  *)
(* same Provider, then write of the objects the read yielded.              *)
(***************************************************************************)
MaxPuts == 2

\* the Objects a caller writes: paths under and outside the prefix, the empty
\* path included
WrittenObjects == [path : {<<>>, <<1>>, <<2>>, <<1, 2>>}, data : 1..2]

RECURSIVE ObjectSeqs(_)
ObjectSeqs(n) ==
    IF n = 0 THEN {<<>>}
    ELSE ObjectSeqs(n - 1)
         \cup {Append(s, o) : s \in {t \in ObjectSeqs(n - 1) : Len(t) = n - 1},
                              o \in WrittenObjects}

\* the keys of the bucket before the write
PreExisting == {{}, {<<2, 2>>}}

\* write has returned: the caller reads from the empty Context
ReadBack ==
    /\ phase = 1
    /\ provider = "s3"
    /\ pc = "done"
    /\ result = Ok
    /\ phase' = 2
    /\ ctx' = ObjectContext(None, None)
    /\ out' = <<>>
    /\ pc' = "idle"
    /\ result' = NoResult
    /\ UNCHANGED <<provider, params, calls, prev, tasks>>
    /\ UNCHANGED <<writeVars, pgVars, s3Vars, lifeVars, poolVars>>

\* the read has ended: the caller writes the objects it yielded
WriteBack ==
    /\ phase = 2
    /\ provider = "s3"
    /\ pc = "done"
    /\ result = Ok
    /\ phase' = 3
    /\ prev' = [pairs |-> out, result |-> result]
    /\ items' = [k \in 1..Len(out) |-> out[k][1]]
    /\ i' = 0
    /\ pc' = "idle"
    /\ result' = NoResult
    /\ UNCHANGED <<provider, params, calls, ctx, out, upserted, reported, tasks>>
    /\ UNCHANGED <<pgVars, s3Vars, lifeVars, poolVars>>

InitS3Trip ==
    /\ provider = "s3"
    /\ \E b \in {1, MaxBatch}, pfx \in {<<>>, <<1>>} :
          params = [NoParams EXCEPT !.batch_size = b, !.prefix = pfx]
    /\ bucket \in PreExisting
    /\ body = [k \in bucket |-> 0]
    /\ items \in ObjectSeqs(MaxPuts)
    /\ ctx = NoContext /\ out = <<>> /\ prev = NoPrev /\ phase = 1
    /\ prefix = <<>> /\ last_key = None /\ page = <<>> /\ truncated = FALSE
    /\ pc = "idle"
    /\ result = NoResult
    /\ calls = <<>>
    /\ i = 0
    /\ table = {} /\ rs = <<>>
    /\ target = TRUE /\ handle = "connected"
    /\ upserted = NoCount /\ reported = <<>>
    /\ acquired = 0 /\ checked_out = 0 /\ held = 0
    /\ tasks = NoTasks

NextS3Trip ==
    \/ phase # 2 /\ S3WritePut
    \/ phase # 2 /\ S3WriteReturn
    \/ ReadBack
    \/ phase = 2 /\ S3ReadStart
    \/ S3ReadList
    \/ S3ReadGet
    \/ S3ReadPageEnd
    \/ WriteBack

SpecS3Trip == InitS3Trip /\ [][NextS3Trip]_vars

\* the data of the last of the written items whose path resolves to key
LastWritten(key) ==
    LET last == CHOOSE k \in 1..Len(items) :
                   /\ ResolveKey(items[k].path) = key
                   /\ \A j \in (k + 1)..Len(items) : ResolveKey(items[j].path) # key
    IN items[last].data

\* C30: S3 write/read round trip: after write(items) succeeds on an
\* S3Provider, a read from an empty Context on the same Provider yields, for
\* every written item, one object whose key is the resolved key of the item's
\* path and whose data equals the data of the last item written to that key;
\* every key written by write starts with Params.prefix, and writing the
\* objects a read yielded back through write stores them under the same keys.
C30_RoundTrip ==
    /\ []((phase = 2 /\ pc = "done" /\ result = Ok) =>
             \A k \in 1..Len(items) :
                LET key == ResolveKey(items[k].path)
                    hits == {j \in 1..Len(out) : out[j][1].path = key}
                IN /\ Cardinality(hits) = 1
                   /\ \A j \in hits : out[j][1].data = LastWritten(key))
    /\ [](\A k \in 1..Len(calls) :
             (calls[k].op = "put_object" /\ calls[k].exc = NoExc) =>
                LET key == ResolveKey(calls[k].batch[1].path)
                IN /\ StartsWith(key, params.prefix)
                   /\ key \in bucket
                   /\ key \in DOMAIN body)
    /\ [][phase = 3 => (bucket' = bucket /\ body' = body)]_vars

\* two items of different paths were written to one key, the read has yielded
\* it with the data of the second, and the objects read were written back
C30_Witness ==
    /\ phase = 3
    /\ pc = "done"
    /\ result = Ok
    /\ params.prefix # <<>>
    /\ Len(prev.pairs) >= 1
    /\ Len(calls) >= 3
    /\ calls[1].op = "put_object"
    /\ calls[2].op = "put_object"
    /\ calls[1].batch[1].path # calls[2].batch[1].path
    /\ ResolveKey(calls[1].batch[1].path) = ResolveKey(calls[2].batch[1].path)
    /\ calls[1].batch[1].data # calls[2].batch[1].data

(***************************************************************************)
(* Pinecone upsert of more vectors than one batch holds.                   *)
(***************************************************************************)
MaxVectors == 201

InitPinecone ==
    /\ provider = "pinecone"
    /\ params = NoParams
    /\ items \in {ItemSeq(n) : n \in {0, 1, PineconeBatchSize, PineconeBatchSize + 1,
                                      MaxVectors}}
    /\ pc = "idle"
    /\ result = NoResult
    /\ calls = <<>>
    /\ i = 0
    /\ ctx = NoContext /\ out = <<>> /\ prev = NoPrev /\ phase = 1
    /\ table = {} /\ rs = <<>>
    /\ bucket = {} /\ body = <<>> /\ prefix = <<>> /\ last_key = None /\ page = <<>>
    /\ truncated = FALSE
    /\ target = TRUE /\ handle = "connected"
    /\ upserted = NoCount /\ reported = <<>>
    /\ acquired = 0 /\ checked_out = 0 /\ held = 0
    /\ tasks = NoTasks

NextPinecone ==
    \/ PineconeUpsertEnter
    \/ PineconeUpsertBatch
    \/ PineconeUpsertReturn

SpecPinecone == InitPinecone /\ [][NextPinecone]_vars

RECURSIVE Sum(_)
Sum(s) == IF s = <<>> THEN 0 ELSE Head(s) + Sum(Tail(s))

\* C31: PineconeProvider.upsert of N vectors issues ceil(N/100) native upsert
\* calls of at most 100 vectors each, in input order and covering every
\* vector once, and returns the count of upserted vectors: the sum over the
\* batches of the count the backend reports for that batch.
C31_PineconeUpsertCount ==
    (provider = "pinecone" /\ pc = "done" /\ result = Ok) =>
       /\ Len(calls) = Ceil(Len(items), PineconeBatchSize)
       /\ \A k \in 1..Len(calls) : Len(calls[k].batch) <= PineconeBatchSize
       /\ Flatten(calls) = items
       /\ upserted = Sum(reported)

====
